---- MODULE Spec2Model ----
(***************************************************************************)
(* Model of the modelsafe metadata registry (association.ts / metadata.ts):*)
(* decorators and define* calls that accumulate option records as          *)
(* reflect-metadata entries on class prototypes, and the get* readers.     *)
(*                                                                         *)
(* Metadata lives on prototype objects.  Reflect.getMetadata and           *)
(* Reflect.hasMetadata walk the prototype chain, Reflect.defineMetadata    *)
(* writes an own entry.  Option records of attributes and associations     *)
(* are heap objects with identity: lodash's merge updates an existing      *)
(* record in place, and the readers hand out shallow copies of the maps    *)
(* that still point at those records.                                      *)
(***************************************************************************)
EXTENDS Integers, Sequences, FiniteSets, TLC

VARIABLES
    optionsMeta,      \* own 'modelsafe:options' metadata: object -> options record
    attrsMeta,        \* own 'modelsafe:attrs' metadata: object -> (key -> record reference)
    assocsMeta,       \* own 'modelsafe:assocs' metadata: object -> (key -> record reference)
    validationsMeta,  \* own 'modelsafe:attrs:validations' metadata: <<object, key>> -> sequence
    heap,             \* record reference -> option record (field -> value)
    calls,            \* number of times the lazy target resolver function was invoked
    ret,              \* outcome of the most recent declaration
    snap,             \* the value the most recent read returned, as its caller holds it
    hist,             \* history: <<operation, class, key>> -> the options of its calls, in call order
    nops              \* number of declarations made so far

vars == <<optionsMeta, attrsMeta, assocsMeta, validationsMeta, heap, calls, ret, snap, hist, nops>>

store == <<optionsMeta, attrsMeta, assocsMeta, validationsMeta, heap>>

\* Number of declarations (decorator applications / define* calls) in a run.
MaxOps == 2

-----------------------------------------------------------------------------
(* Classes, objects and the prototype chain *)

\* class AdminUser extends User; Post is unrelated to both.
Classes == {"User", "AdminUser", "Post"}

SuperClass(c) == IF c = "AdminUser" THEN "User" ELSE "Object"

\* ctor.prototype
Prototype(c) == c \o ".prototype"

Objects == {Prototype(c) : c \in Classes}

\* O.[[GetPrototypeOf]](): the prototype of the superclass; Object.prototype ends the chain.
GetPrototypeOf(o) ==
    IF o = "Object.prototype" THEN "null"
    ELSE Prototype(SuperClass(CHOOSE c \in Classes : Prototype(c) = o))

\* Property keys used by the declarations.
Keys == {"email", "posts"}

-----------------------------------------------------------------------------
(* JavaScript values *)

NoFields == [f \in {} |-> ""]

\* undefined
Undefined == [k |-> "undefined", s |-> "", o |-> NoFields]

\* a primitive (string, number, boolean, enum member), written as its text
Prim(x) == [k |-> "primitive", s |-> x, o |-> NoFields]

\* a function object (a class constructor or a zero-argument resolver), held by reference
Fn(name) == [k |-> "function", s |-> name, o |-> NoFields]

\* a plain object whose own properties are primitives (held as text)
Obj(fields) == [k |-> "object", s |-> "", o |-> fields]

\* lodash isObject: objects and functions
IsObject(v) == v.k \in {"object", "function"}

IsPlainObject(v) == v.k = "object"

IsFunction(v) == v.k = "function"

\* The empty object literal {}.
EmptyRecord == [f \in {} |-> Undefined]

\* object[key], undefined when the key is absent
Get(object, key) == IF key \in DOMAIN object THEN object[key] ELSE Undefined

\* object[key] = value
Put(object, key, value) ==
    [f \in DOMAIN object \cup {key} |-> IF f = key THEN value ELSE object[f]]

\* A spread in the other order: the properties of a win over those of b.
SpreadUnder(a, b) ==
    [f \in DOMAIN a \cup DOMAIN b |-> IF f \in DOMAIN a THEN a[f] ELSE b[f]]

\* { ...a, ...b }: own enumerable properties of a, then those of b over them
\* (a property of b whose value is undefined is copied like any other).
Spread(a, b) ==
    [f \in DOMAIN a \cup DOMAIN b |-> IF f \in DOMAIN b THEN b[f] ELSE a[f]]

-----------------------------------------------------------------------------
(* lodash _.merge *)

\* An assignment that also writes undefined over an existing key.
AssignMergeValueAlways(object, key, value) == Put(object, key, value)

\* assignMergeValue(object, key, value): assign unless value is undefined and
\* the key already exists.
AssignMergeValue(object, key, value) ==
    IF value # Undefined \/ key \notin DOMAIN object
    THEN Put(object, key, value)
    ELSE object

\* baseMerge on a nested plain object whose properties are primitives.
BaseMergeNested(object, source) ==
    [g \in DOMAIN object \cup DOMAIN source |->
        IF g \in DOMAIN source THEN source[g] ELSE object[g]]

\* The value baseMerge / baseMergeDeep give object[key] for source value srcValue.
MergedValue(objValue, srcValue) ==
    IF IsPlainObject(srcValue)
    THEN IF IsPlainObject(objValue)
         THEN Obj(BaseMergeNested(objValue.o, srcValue.o))   \* merged into objValue
         ELSE Obj(BaseMergeNested(NoFields, srcValue.o))     \* initCloneObject(srcValue)
    ELSE srcValue                                            \* primitives, functions, undefined

RECURSIVE BaseMergeKeys(_, _, _)
BaseMergeKeys(object, source, keys) ==
    IF keys = {} THEN object
    ELSE LET key == CHOOSE x \in keys : TRUE
             merged == AssignMergeValue(object, key,
                                        MergedValue(Get(object, key), source[key]))
         IN BaseMergeKeys(merged, source, keys \ {key})

\* An assignment of every key of source, undefined values included.
BaseMergeAssigning(object, source) ==
    [k \in DOMAIN object \cup DOMAIN source |->
        IF k \in DOMAIN source THEN source[k] ELSE object[k]]

\* baseMerge(object, source) on an option record: every key of source in turn.
BaseMerge(object, source) == BaseMergeKeys(object, source, DOMAIN source)

-----------------------------------------------------------------------------
(* reflect-metadata *)

NoMap == [k \in {} |-> <<>>]

\* A lookup that is not keyed by the object: any entry of the registry is found.
MetadataHolderAnywhere(meta, o) ==
    IF DOMAIN meta = {} THEN "null" ELSE CHOOSE x \in DOMAIN meta : TRUE

\* Reflect.hasMetadata(metaKey, o): own entry or one up the prototype chain.
RECURSIVE HasMetadata(_, _)
HasMetadata(meta, o) ==
    IF o = "null" THEN FALSE
    ELSE IF o \in DOMAIN meta THEN TRUE
    ELSE HasMetadata(meta, GetPrototypeOf(o))

\* The object whose own entry Reflect.getMetadata(metaKey, o) returns
\* ("null" when it returns undefined).
RECURSIVE MetadataHolder(_, _)
MetadataHolder(meta, o) ==
    IF o = "null" THEN "null"
    ELSE IF o \in DOMAIN meta THEN o
    ELSE MetadataHolder(meta, GetPrototypeOf(o))

\* { ... Reflect.getMetadata(metaKey, o) } for a map of record references.
GetMapCopy(meta, o) ==
    LET h == MetadataHolder(meta, o) IN IF h = "null" THEN NoMap ELSE meta[h]

\* { ... Reflect.getMetadata(MODEL_OPTIONS_META_KEY, o) }
GetOptionsCopy(meta, o) ==
    LET h == MetadataHolder(meta, o) IN IF h = "null" THEN EmptyRecord ELSE meta[h]

\* Reflect.defineMetadata(metaKey, value, o)
DefineMetadata(meta, o, value) ==
    [x \in DOMAIN meta \cup {o} |-> IF x = o THEN value ELSE meta[x]]

-----------------------------------------------------------------------------
(* Properties *)

\* A constructor that takes its arguments in the other order.
AssociationSwapped(type, name) == [variant |-> "Association", type |-> type, name |-> type.s]

\* new Association(type, name)
Association(type, name) == [variant |-> "Association", type |-> type, name |-> name]

\* new Attribute(type, name)
Attribute(type, name) == [variant |-> "Attribute", type |-> type, name |-> name]

\* Property.toString()
toString(property) == property.name

-----------------------------------------------------------------------------
(* guessModelName *)

Lower == [ch \in {"A", "P", "U"} |->
            IF ch = "A" THEN "a" ELSE IF ch = "P" THEN "p" ELSE "u"]

IsUpper(ch) == ch \in DOMAIN Lower

ToLower(ch) == IF IsUpper(ch) THEN Lower[ch] ELSE ch

\* ctor.name, letter by letter
NameOf(c) ==
    IF c = "User" THEN <<"U", "s", "e", "r">>
    ELSE IF c = "AdminUser" THEN <<"A", "d", "m", "i", "n", "U", "s", "e", "r">>
    ELSE <<"P", "o", "s", "t">>

\* A word of _.words starts at i: at the first letter, at an upper-case letter
\* after a lower-case one, and at the last upper-case letter of a run that a
\* lower-case letter follows.
WordStart(name, i) ==
    \/ i = 1
    \/ /\ IsUpper(name[i])
       /\ \/ ~IsUpper(name[i - 1])
          \/ i < Len(name) /\ ~IsUpper(name[i + 1])

\* _.camelCase: the words in lower case, each but the first capitalised, joined.
RECURSIVE CamelCaseFrom(_, _)
CamelCaseFrom(name, i) ==
    IF i > Len(name) THEN ""
    ELSE (IF i > 1 /\ WordStart(name, i) THEN name[i] ELSE ToLower(name[i]))
         \o CamelCaseFrom(name, i + 1)

\* A normalisation that only lower-cases the name.
RECURSIVE LowerCaseFrom(_, _)
LowerCaseFrom(name, i) ==
    IF i > Len(name) THEN "" ELSE ToLower(name[i]) \o LowerCaseFrom(name, i + 1)

LowerCaseOnly(name) == LowerCaseFrom(name, 1)

CamelCase(name) == CamelCaseFrom(name, 1)

guessModelName(c) == CamelCase(NameOf(c))

-----------------------------------------------------------------------------
(* Results of operations *)

NoProps == [k \in {} |-> Attribute(Undefined, "")]

NoSeen == [k \in {} |-> EmptyRecord]

NoSnap == [op |-> "none", cls |-> "", key |-> "", raised |-> FALSE, bool |-> FALSE,
           opts |-> EmptyRecord, refs |-> NoMap, seen |-> NoSeen,
           props |-> NoProps, list |-> <<>>]

\* The call returned.
Returned == [raised |-> FALSE]

\* The call threw.
Threw == [raised |-> TRUE]

\* The calls of op on (c, key) so far, in call order.
Calls(op, c, key) == IF <<op, c, key>> \in DOMAIN hist THEN hist[<<op, c, key>>] ELSE <<>>

\* The history with one more call of op on (c, key).
Record(op, c, key, options) == Put(hist, <<op, c, key>>, Append(Calls(op, c, key), options))

-----------------------------------------------------------------------------
(* Declarations *)

\* defineModelOptions(ctor, options)
defineModelOptions(c, options) ==
    /\ optionsMeta' = DefineMetadata(optionsMeta, Prototype(c),
                          Spread(GetOptionsCopy(optionsMeta, Prototype(c)), options))
    /\ ret' = Returned
    /\ hist' = Record("defineModelOptions", c, "", options)
    /\ nops' = nops + 1
    /\ UNCHANGED <<attrsMeta, assocsMeta, validationsMeta, heap, calls, snap>>

\* A registry that replaces the record of key by the new options.
MergeIntoReplacing(kind, meta, o, key, options) ==
    LET map == GetMapCopy(meta, o)
        ref == IF key \in DOMAIN map THEN map[key] ELSE <<kind, o, key>>
    IN <<Put(map, key, ref), Put(heap, ref, options)>>

\* A merge into a fresh map: the other keys of the existing map are not copied.
MergeIntoFresh(kind, meta, o, key, options) ==
    LET ref == <<kind, o, key>>
    IN <<Put(NoMap, key, ref), Put(heap, ref, options)>>

\* _.merge({ ... Reflect.getMetadata(metaKey, o) }, { [key]: options }): the
\* record of key is merged in place when the copied map has one, else a new record
\* is created.  The result is <<map, heap>>.
MergeInto(kind, meta, o, key, options) ==
    LET map == GetMapCopy(meta, o)
        ref == IF key \in DOMAIN map THEN map[key] ELSE <<kind, o, key>>
        old == IF key \in DOMAIN map THEN heap[ref] ELSE EmptyRecord
    IN <<Put(map, key, ref), Put(heap, ref, BaseMerge(old, options))>>

\* A declaration that resolves a lazy target at once: it calls the function and
\* stores the class it returns.
defineAssociationEager(c, key, options) ==
    LET lazy == "target" \in DOMAIN options /\ options["target"] = Fn("() => Post")
        resolved == IF lazy THEN Put(options, "target", Fn("Post")) ELSE options
        merged == MergeInto("assocs", assocsMeta, Prototype(c), key, resolved)
    IN
    /\ assocsMeta' = DefineMetadata(assocsMeta, Prototype(c), merged[1])
    /\ heap' = merged[2]
    /\ calls' = IF lazy THEN calls + 1 ELSE calls
    /\ ret' = Returned
    /\ hist' = Record("defineAssociation", c, key, options)
    /\ nops' = nops + 1
    /\ UNCHANGED <<optionsMeta, attrsMeta, validationsMeta, snap>>

\* defineAssociation(ctor, key, options), ctor being the decorated prototype
defineAssociation(c, key, options) ==
    LET merged == MergeInto("assocs", assocsMeta, Prototype(c), key, options) IN
    /\ assocsMeta' = DefineMetadata(assocsMeta, Prototype(c), merged[1])
    /\ heap' = merged[2]
    /\ ret' = Returned
    /\ hist' = Record("defineAssociation", c, key, options)
    /\ nops' = nops + 1
    /\ UNCHANGED <<optionsMeta, attrsMeta, validationsMeta, calls, snap>>

\* A declaration that assigns the partial record under key instead of merging it.
defineAttributeAssigning(c, key, options) ==
    LET merged == MergeIntoReplacing("attrs", attrsMeta, Prototype(c), key, options) IN
    /\ attrsMeta' = DefineMetadata(attrsMeta, Prototype(c), merged[1])
    /\ heap' = merged[2]
    /\ ret' = Returned
    /\ hist' = Record("defineAttribute", c, key, options)
    /\ nops' = nops + 1
    /\ UNCHANGED <<optionsMeta, assocsMeta, validationsMeta, calls, snap>>

\* defineAttribute(ctor, key, options), ctor being the decorated prototype
defineAttribute(c, key, options) ==
    LET merged == MergeInto("attrs", attrsMeta, Prototype(c), key, options) IN
    /\ attrsMeta' = DefineMetadata(attrsMeta, Prototype(c), merged[1])
    /\ heap' = merged[2]
    /\ ret' = Returned
    /\ hist' = Record("defineAttribute", c, key, options)
    /\ nops' = nops + 1
    /\ UNCHANGED <<optionsMeta, assocsMeta, validationsMeta, calls, snap>>

\* Reflect.getMetadata(ATTR_VALIDATIONS_META_KEY, o, key): <<found, list>>
RECURSIVE GetValidations(_, _, _)
GetValidations(meta, o, key) ==
    IF o = "null" THEN <<FALSE, <<>>>>
    ELSE IF <<o, key>> \in DOMAIN meta THEN <<TRUE, meta[<<o, key>>]>>
    ELSE GetValidations(meta, GetPrototypeOf(o), key)

\* defineAttributeValidation(ctor, key, validation): spreading the undefined
\* that getMetadata returns for a key without validations into the array
\* literal throws a TypeError before anything is stored.
defineAttributeValidation(c, key, validation) ==
    LET got == GetValidations(validationsMeta, Prototype(c), key) IN
    /\ IF got[1]
       THEN /\ validationsMeta' = DefineMetadata(validationsMeta, <<Prototype(c), key>>,
                                                 Append(got[2], validation))
            /\ ret' = Returned
       ELSE /\ validationsMeta' = validationsMeta
            /\ ret' = Threw
    /\ hist' = Record("defineAttributeValidation", c, key, validation)
    /\ nops' = nops + 1
    /\ UNCHANGED <<optionsMeta, attrsMeta, assocsMeta, heap, calls, snap>>

-----------------------------------------------------------------------------
(* Values the declarations of a run use *)

STRING_TYPE == Prim("STRING_TYPE")

INTEGER_TYPE == Prim("INTEGER_TYPE")

HAS_MANY == Prim("HAS_MANY")

BELONGS_TO == Prim("BELONGS_TO")

\* The class Post given directly as an association target.
PostCtor == Fn("Post")

\* () => Post, a lazy association target.
Resolver == Fn("() => Post")

\* An argument left out of a call is undefined; spreading undefined adds nothing.
Omitted == EmptyRecord

\* Validation entries { cb, options }.
Validation(cb) == [f \in {"cb", "options"} |-> IF f = "cb" THEN Fn(cb) ELSE Undefined]

One(field, value) == [f \in {field} |-> value]

\* (class, key) pairs that carry property decorators.
AttrUses == {<<"User", "email">>, <<"AdminUser", "email">>,
             <<"Post", "email">>, <<"User", "posts">>}

FlagUses == {<<"User", "email">>, <<"AdminUser", "email">>}

AssocUses == {<<"User", "posts">>, <<"AdminUser", "posts">>, <<"User", "email">>}

DefaultValues == {Prim("1"), Obj(One("x", "1")), Obj(One("y", "2"))}

Targets == {Undefined, PostCtor, Resolver}

ModelUses == {<<"User", Omitted>>, <<"AdminUser", Omitted>>,
              <<"AdminUser", One("name", Prim("staff"))>>}

ModelOptionUses == {<<"User", EmptyRecord>>,
                    <<"AdminUser", One("tableName", Prim("admins"))>>}

AttributeOptionUses == {One("type", Undefined), One("type", INTEGER_TYPE)}

AssociationOptionUses == {One("type", BELONGS_TO)}

-----------------------------------------------------------------------------
(* Decorators and direct calls *)

\* The decorator model(options) applied to class c.
ModelDecorator(c, options) ==
    /\ nops < MaxOps
    /\ defineModelOptions(c, Spread(One("name", Prim(guessModelName(c))), options))

\* @model(options)
model == \E use \in ModelUses : ModelDecorator(use[1], use[2])

\* defineModelOptions(ctor, options) called directly
DefineModelOptionsCall ==
    \E use \in ModelOptionUses :
        /\ nops < MaxOps
        /\ defineModelOptions(use[1], use[2])

\* @attr(type, options)
attr ==
    \E use \in AttrUses :
        /\ nops < MaxOps
        /\ defineAttribute(use[1], use[2], Spread(Omitted, One("type", STRING_TYPE)))

\* defineAttribute(ctor, key, options) called directly
DefineAttributeCall ==
    \E use \in FlagUses, options \in AttributeOptionUses :
        /\ use[1] = "User"
        /\ nops < MaxOps
        /\ defineAttribute(use[1], use[2], options)

\* @assoc(type, target, options)
assoc ==
    \E use \in AssocUses, target \in Targets :
        /\ nops < MaxOps
        /\ defineAssociation(use[1], use[2],
               Spread(Spread(Omitted, One("type", HAS_MANY)), One("target", target)))

\* defineAssociation(ctor, key, options) called directly
DefineAssociationCall ==
    \E options \in AssociationOptionUses :
        /\ nops < MaxOps
        /\ defineAssociation("User", "posts", options)

\* @validate(validation, options)
validate ==
    \E cb \in {"isEmail", "isLowerCase"} :
        /\ nops < MaxOps
        /\ defineAttributeValidation("User", "email", Validation(cb))

\* defineAttributeValidation(ctor, key, validation) called directly
DefineAttributeValidationCall ==
    /\ nops < MaxOps
    /\ defineAttributeValidation("AdminUser", "email", Validation("isEmail"))

\* @defaultValue(value)
defaultValue ==
    \E use \in FlagUses, value \in DefaultValues :
        /\ nops < MaxOps
        /\ defineAttribute(use[1], use[2], One("defaultValue", value))

\* @readOnly
readOnly ==
    \E use \in FlagUses :
        /\ nops < MaxOps
        /\ defineAttribute(use[1], use[2], One("readOnly", Prim("true")))

\* @required
required ==
    /\ nops < MaxOps
    /\ defineAttribute("User", "email", One("optional", Prim("false")))

\* @optional
optional ==
    /\ nops < MaxOps
    /\ defineAttribute("User", "email", One("optional", Prim("true")))

\* @primary
primary ==
    /\ nops < MaxOps
    /\ defineAttribute("AdminUser", "email", One("primary", Prim("true")))

\* @unique
unique ==
    /\ nops < MaxOps
    /\ defineAttribute("User", "email", One("unique", Prim("true")))

-----------------------------------------------------------------------------
(* Reads *)

\* What the caller sees through a map of record references right now.
Deref(refs) == [k \in DOMAIN refs |-> heap[refs[k]]]

\* getModelOptions(ctor)
getModelOptions(c) == GetOptionsCopy(optionsMeta, Prototype(c))

\* getAssociations(ctor): a fresh map holding the stored records themselves
getAssociations(c) == GetMapCopy(assocsMeta, Prototype(c))

\* getAttributes(ctor): a fresh map holding the stored records themselves
getAttributes(c) == GetMapCopy(attrsMeta, Prototype(c))

\* A resolver that goes through the associations first, the attributes over them.
getPropertiesAttributesLast(c) ==
    LET attrs == GetMapCopy(attrsMeta, Prototype(c))
        assocs == GetMapCopy(assocsMeta, Prototype(c))
    IN [key \in DOMAIN attrs \cup DOMAIN assocs |->
          IF key \in DOMAIN attrs
          THEN Attribute(Get(heap[attrs[key]], "type"), key)
          ELSE Association(Get(heap[assocs[key]], "type"), key)]

\* getProperties(ctor): the attributes first, the associations over them
getProperties(c) ==
    LET attrs == getAttributes(c)
        assocs == getAssociations(c)
        props == [key \in DOMAIN attrs |-> Attribute(Get(heap[attrs[key]], "type"), key)]
    IN [key \in DOMAIN props \cup DOMAIN assocs |->
          IF key \in DOMAIN assocs
          THEN Association(Get(heap[assocs[key]], "type"), key)
          ELSE props[key]]

\* Values hasModelOptions is probed with: the classes and a value that is no class.
Probes == Classes \cup {"undefined"}

\* A check that looks under the attribute key instead of the options key.
hasModelOptionsUnderAttrs(x) ==
    IF x \in Classes THEN HasMetadata(attrsMeta, Prototype(x)) ELSE FALSE

\* hasModelOptions(ctor): a TypeError raised inside the try block gives false
hasModelOptions(x) ==
    IF x \in Classes THEN HasMetadata(optionsMeta, Prototype(x)) ELSE FALSE

HasModelOptionsCall ==
    \E x \in Probes :
        /\ snap' = [NoSnap EXCEPT !.op = "hasModelOptions", !.cls = x,
                                  !.bool = hasModelOptions(x)]
        /\ UNCHANGED <<store, calls, ret, hist, nops>>

GetModelOptionsCall ==
    \E c \in Classes :
        /\ snap' = [NoSnap EXCEPT !.op = "getModelOptions", !.cls = c,
                                  !.opts = getModelOptions(c)]
        /\ UNCHANGED <<store, calls, ret, hist, nops>>

GetAssociationsCall ==
    \E c \in Classes :
        /\ snap' = [NoSnap EXCEPT !.op = "getAssociations", !.cls = c,
                                  !.refs = getAssociations(c),
                                  !.seen = Deref(getAssociations(c))]
        /\ UNCHANGED <<store, calls, ret, hist, nops>>

GetAttributesCall ==
    \E c \in Classes :
        /\ snap' = [NoSnap EXCEPT !.op = "getAttributes", !.cls = c,
                                  !.refs = getAttributes(c),
                                  !.seen = Deref(getAttributes(c))]
        /\ UNCHANGED <<store, calls, ret, hist, nops>>

\* getAttributeValidations(ctor, key): spreading undefined into the array
\* literal throws a TypeError.
GetAttributeValidationsCall ==
    \E c \in {"User", "AdminUser"} :
        LET key == "email"
            got == GetValidations(validationsMeta, Prototype(c), key) IN
        /\ snap' = [NoSnap EXCEPT !.op = "getAttributeValidations", !.cls = c,
                                  !.key = key, !.raised = ~got[1], !.list = got[2]]
        /\ UNCHANGED <<store, calls, ret, hist, nops>>

\* A resolver that keeps the attribute map it read as the class's own metadata.
GetPropertiesCallCaching(c) ==
    /\ snap' = [NoSnap EXCEPT !.op = "getProperties", !.cls = c,
                              !.props = getProperties(c)]
    /\ attrsMeta' = DefineMetadata(attrsMeta, Prototype(c), getAttributes(c))
    /\ UNCHANGED <<optionsMeta, assocsMeta, validationsMeta, heap, calls, ret, hist, nops>>

GetPropertiesCall(c) ==
    /\ snap' = [NoSnap EXCEPT !.op = "getProperties", !.cls = c,
                              !.props = getProperties(c)]
    /\ UNCHANGED <<store, calls, ret, hist, nops>>

GetPropertiesAny == \E c \in Classes : GetPropertiesCall(c)

-----------------------------------------------------------------------------
(* Specification *)

Init ==
    /\ optionsMeta = [o \in {} |-> EmptyRecord]
    /\ attrsMeta = [o \in {} |-> NoMap]
    /\ assocsMeta = [o \in {} |-> NoMap]
    /\ validationsMeta = [o \in {} |-> <<>>]
    /\ heap = [r \in {} |-> EmptyRecord]
    /\ calls = 0
    /\ ret = Returned
    /\ snap = NoSnap
    /\ hist = [r \in {} |-> <<>>]
    /\ nops = 0

Next ==
    \/ model
    \/ DefineModelOptionsCall
    \/ attr
    \/ DefineAttributeCall
    \/ assoc
    \/ DefineAssociationCall
    \/ validate
    \/ DefineAttributeValidationCall
    \/ defaultValue
    \/ readOnly
    \/ required
    \/ optional
    \/ primary
    \/ unique
    \/ HasModelOptionsCall
    \/ GetModelOptionsCall
    \/ GetAssociationsCall
    \/ GetAttributesCall
    \/ GetAttributeValidationsCall
    \/ GetPropertiesAny

Spec == Init /\ [][Next]_vars

-----------------------------------------------------------------------------
(* Vocabulary of the claims *)

Max(S) == CHOOSE x \in S : \A y \in S : y <= x

\* The classes c derives from.
RECURSIVE Bases(_)
Bases(c) == IF SuperClass(c) \in Classes THEN {SuperClass(c)} \cup Bases(SuperClass(c)) ELSE {}

\* The classes on c's inheritance line: its bases and the classes deriving from it.
Related(c) == Bases(c) \cup {d \in Classes : c \in Bases(d)}

PropertyOps == {"defineAttribute", "defineAssociation"}

\* op was called on (c, key).
Declared(op, c, key) == Calls(op, c, key) # <<>>

\* No declaration of any kind was made on class c.
Untouched(c) == \A r \in DOMAIN hist : r[2] # c

\* The calls of op on (c, key) are the only ones of op under key on c's inheritance line.
Alone(op, c, key) == \A d \in Related(c) : ~Declared(op, d, key)

\* The option record a fresh read gives for (c, key).
StoredRecord(op, c, key) ==
    IF op = "defineAttribute" THEN Deref(getAttributes(c))[key]
    ELSE Deref(getAssociations(c))[key]

HasRecord(op, c, key) ==
    IF op = "defineAttribute" THEN key \in DOMAIN getAttributes(c)
    ELSE key \in DOMAIN getAssociations(c)

FieldsOf(L) == UNION {DOMAIN L[i] : i \in 1..Len(L)}

\* The calls of L that provide field f.
Given(L, f) == {i \in 1..Len(L) : f \in DOMAIN L[i]}

\* The calls of L that provide field f with a value other than undefined.
GivenDefined(L, f) == {i \in Given(L, f) : L[i][f] # Undefined}

-----------------------------------------------------------------------------
(* C1 *)

\* rec holds exactly the fields L provides, each with the value of the last call
\* that provided it.
LastProvidedWins(L, rec) ==
    /\ DOMAIN rec = FieldsOf(L)
    /\ \A f \in DOMAIN rec : rec[f] = L[Max(Given(L, f))][f]

\* rec holds exactly the fields L provides; a field has the value of the last call
\* that gave it a value other than undefined (undefined when none did); a plain
\* object is merged, property by property, over the plain objects given by the
\* calls directly before it.
DeepMergeOf(L, rec) ==
    /\ DOMAIN rec = FieldsOf(L)
    /\ \A f \in DOMAIN rec :
         LET defined == GivenDefined(L, f) IN
         IF defined = {} THEN rec[f] = Undefined
         ELSE LET m == Max(defined) IN
              IF ~IsPlainObject(L[m][f]) THEN rec[f] = L[m][f]
              ELSE LET breaks == {i \in defined : ~IsPlainObject(L[i][f])}
                       b == IF breaks = {} THEN 0 ELSE Max(breaks)
                       run == {i \in defined : i > b}
                   IN /\ IsPlainObject(rec[f])
                      /\ DOMAIN rec[f].o = UNION {DOMAIN L[i][f].o : i \in run}
                      /\ \A g \in DOMAIN rec[f].o :
                           rec[f].o[g] =
                             L[Max({i \in run : g \in DOMAIN L[i][f].o})][f].o[g]

-----------------------------------------------------------------------------
(* C2, C3 *)

\* C2: after defineAttributeValidation calls V1..Vn on a (type, key) that had no
\* validation entries, every call has succeeded and getAttributeValidations
\* returns exactly [V1, ..., Vn].
C2_AppendOnly ==
    \A c \in Classes, key \in Keys :
        LET L == Calls("defineAttributeValidation", c, key) IN
        L # <<>> /\ Alone("defineAttributeValidation", c, key) =>
            /\ ~ret.raised
            /\ GetValidations(validationsMeta, Prototype(c), key) = <<TRUE, L>>

\* C3: getAttributeValidations on a (type, key) for which no validation entry was
\* ever declared returns an empty sequence and does not raise.
C3_EmptyValidations ==
    ( /\ snap.op = "getAttributeValidations"
      /\ \A d \in Classes : ~Declared("defineAttributeValidation", d, snap.key) )
    => ~snap.raised /\ snap.list = <<>>

-----------------------------------------------------------------------------
(* C4 *)

EmptyReads(c) ==
    /\ DOMAIN getProperties(c) = {}
    /\ DOMAIN getModelOptions(c) = {}

ReadsDoNotRaise ==
    snap.op \in {"getProperties", "getModelOptions"} => ~snap.raised

\* C4 as stated: on a type for which nothing was ever declared, getProperties
\* returns an empty mapping and getModelOptions an empty record, whatever was
\* declared for other types; neither raises.
C4_EmptyWhenUntouched ==
    /\ \A c \in Classes : Untouched(c) => EmptyReads(c)
    /\ ReadsDoNotRaise

\* C4 amended: on a type for which nothing was ever declared and none of whose
\* base types has a declaration, getProperties returns an empty mapping and
\* getModelOptions an empty record, whatever was declared for the other types;
\* neither raises.
C4_EmptyWhenLineUntouched ==
    /\ \A c \in Classes :
         Untouched(c) /\ (\A b \in Bases(c) : Untouched(b)) => EmptyReads(c)
    /\ ReadsDoNotRaise

\* getProperties was called on the untouched class Post after two declarations
\* on other classes, and returned the empty mapping.
C4_Witness ==
    /\ Untouched("Post")
    /\ nops = 2
    /\ snap.op = "getProperties" /\ snap.cls = "Post"
    /\ DOMAIN snap.props = {} /\ ~snap.raised

-----------------------------------------------------------------------------
(* C5 *)

\* Every declared attribute or association key of T resolves to a property whose
\* string form is the key.
NameFidelity ==
    \A op \in PropertyOps, c \in Classes, key \in Keys :
        Declared(op, c, key) =>
            /\ key \in DOMAIN getProperties(c)
            /\ toString(getProperties(c)[key]) = key

\* C5 as stated: NameFidelity, and getProperties(T) has no key that was not
\* declared as an attribute or association of T.
C5_DeclaredKeysOnly ==
    /\ NameFidelity
    /\ \A c \in Classes : \A key \in DOMAIN getProperties(c) :
         \E op \in PropertyOps : Declared(op, c, key)

\* C5 amended: NameFidelity, and getProperties(T) has no key that was not declared
\* as an attribute or association of T or of a type T derives from.
C5_DeclaredOrInheritedKeysOnly ==
    /\ NameFidelity
    /\ \A c \in Classes : \A key \in DOMAIN getProperties(c) :
         \E op \in PropertyOps, d \in {c} \cup Bases(c) : Declared(op, d, key)

\* User has the attribute email and the association posts, and getProperties
\* returned exactly these two names.
C5_Witness ==
    /\ Declared("defineAttribute", "User", "email")
    /\ Declared("defineAssociation", "User", "posts")
    /\ snap.op = "getProperties" /\ snap.cls = "User"
    /\ DOMAIN snap.props = {"email", "posts"}
    /\ toString(snap.props["email"]) = "email"
    /\ toString(snap.props["posts"]) = "posts"

-----------------------------------------------------------------------------
(* C6 *)

\* C6: when an attribute and an association are both declared under key k for
\* one type, the entry under k in getProperties(type) is the Association, with
\* the association's link type.
C6_AssociationWins ==
    \A c \in Classes, key \in Keys :
        Declared("defineAttribute", c, key) /\ Declared("defineAssociation", c, key) =>
            /\ key \in DOMAIN getProperties(c)
            /\ getProperties(c)[key].variant = "Association"
            /\ getProperties(c)[key].type =
                 Get(StoredRecord("defineAssociation", c, key), "type")

\* User.email is declared as an attribute and as an association, and
\* getProperties(User) returned an Association of type HAS_MANY under email.
C6_Witness ==
    /\ Declared("defineAttribute", "User", "email")
    /\ Declared("defineAssociation", "User", "email")
    /\ snap.op = "getProperties" /\ snap.cls = "User"
    /\ snap.props["email"] = Association(HAS_MANY, "email")

-----------------------------------------------------------------------------
(* C7 *)

\* Every declaration of (c, key) on c's inheritance line that gives a target
\* gives the resolver function, and one on c does.
OnlyLazyTargets(c, key) ==
    /\ \A d \in {c} \cup Related(c) :
         LET L == Calls("defineAssociation", d, key) IN
         \A i \in 1..Len(L) : Get(L[i], "target") \in {Undefined, Resolver}
    /\ LET L == Calls("defineAssociation", c, key) IN
       \E i \in 1..Len(L) : Get(L[i], "target") = Resolver

\* C7: declarations (also ones merging into the same key later) and the reads
\* getProperties and getAssociations never invoke a resolver function given as
\* an association target: its call count stays 0 and the stored target is the
\* function itself.
C7_LazyTargetNotInvoked ==
    /\ calls = 0
    /\ \A c \in Classes, key \in Keys :
         OnlyLazyTargets(c, key) =>
            /\ HasRecord("defineAssociation", c, key)
            /\ StoredRecord("defineAssociation", c, key)["target"] = Resolver
    /\ snap.op = "getAssociations" =>
         \A key \in DOMAIN snap.refs :
            Get(snap.seen[key], "target") \in Targets

\* User.posts was declared with the resolver and declared again (a merge into
\* the same key), getProperties(User) was called, and the resolver was not.
C7_Witness ==
    /\ OnlyLazyTargets("User", "posts")
    /\ Len(Calls("defineAssociation", "User", "posts")) = 2
    /\ snap.op = "getProperties" /\ snap.cls = "User"
    /\ "posts" \in DOMAIN snap.props
    /\ calls = 0
    /\ StoredRecord("defineAssociation", "User", "posts")["target"] = Resolver

-----------------------------------------------------------------------------
(* C8 *)

\* C8: a value a read returned stays as it was returned whatever is declared
\* afterwards: the records a returned attribute or association map holds still
\* have the contents they had when the read returned.
C8_IndependentSnapshot ==
    snap.op \in {"getAttributes", "getAssociations"} => Deref(snap.refs) = snap.seen

-----------------------------------------------------------------------------
(* C9 *)

\* A step that is a read of the property map or of the maps it is built from.
PropertyRead ==
    /\ snap' # snap
    /\ snap'.op \in {"getProperties", "getAttributes", "getAssociations"}

\* C9: getProperties, getAttributes and getAssociations leave every record of
\* the declaration store unchanged, and what getProperties returns is what a
\* second call right after it returns.
C9_PureRead ==
    [][PropertyRead =>
         /\ store' = store
         /\ calls' = calls /\ hist' = hist
         /\ \A c \in Classes :
              snap'.op = "getProperties" /\ snap'.cls = c
                  => snap'.props = getProperties(c)']_vars

\* getProperties(AdminUser) returned a non-empty mapping equal to what a call
\* returns now, with the store holding two declarations.
C9_Witness ==
    /\ nops = 2
    /\ snap.op = "getProperties" /\ snap.cls = "AdminUser"
    /\ DOMAIN snap.props # {}
    /\ snap.props = getProperties("AdminUser")

-----------------------------------------------------------------------------
(* C10 *)

ModelDeclared(c) == Declared("defineModelOptions", c, "")

HasModelOptionsDoesNotRaise == snap.op = "hasModelOptions" => ~snap.raised

-----------------------------------------------------------------------------
(* C11 *)

\* The camelCase form of each class identifier, written out.
ExpectedName(c) ==
    IF c = "User" THEN "user" ELSE IF c = "AdminUser" THEN "adminUser" ELSE "post"

ModelCalls(c) == Calls("defineModelOptions", c, "")

\* C11 as stated: once model options are declared for T, getModelOptions(T) has a
\* name: a name given in a declaration on T, or else the camelCase form of T's
\* identifier.
C11_AlwaysNamed ==
    \A c \in Classes :
        ModelDeclared(c) =>
            /\ "name" \in DOMAIN getModelOptions(c)
            /\ getModelOptions(c)["name"] \in
                 {Prim(ExpectedName(c))} \cup
                 {ModelCalls(c)[i]["name"] :
                    i \in {j \in 1..Len(ModelCalls(c)) : "name" \in DOMAIN ModelCalls(c)[j]}}

\* C11 amended: applying the model decorator to T gives getModelOptions(T) a
\* name, the one in the decorator's options when they have one and otherwise the
\* camelCase form of T's identifier; a later declaration on T replaces the name
\* only when it provides one, and declarations on other types leave the options
\* of a declared T alone.  (defineModelOptions called directly adds no name.)
C11_DecoratorNames ==
    [][hist' # hist \/ optionsMeta' # optionsMeta =>
       \A c \in Classes :
         /\ \A options \in {use[2] : use \in ModelUses} :
              ModelCalls(c)' # ModelCalls(c) /\ ModelDecorator(c, options) =>
                 /\ "name" \in DOMAIN getModelOptions(c)'
                 /\ getModelOptions(c)'["name"] =
                      IF "name" \in DOMAIN options THEN options["name"]
                      ELSE Prim(ExpectedName(c))
         /\ ModelCalls(c)' # ModelCalls(c) =>
              LET given == ModelCalls(c)'[Len(ModelCalls(c)')] IN
              IF "name" \in DOMAIN given
              THEN getModelOptions(c)'["name"] = given["name"]
              ELSE /\ "name" \in DOMAIN getModelOptions(c)'
                        <=> "name" \in DOMAIN getModelOptions(c)
                   /\ Get(getModelOptions(c)', "name") = Get(getModelOptions(c), "name")
         /\ ModelCalls(c)' = ModelCalls(c) /\ ModelDeclared(c) =>
              getModelOptions(c)' = getModelOptions(c)]_vars

\* @model() without options was applied to AdminUser and getModelOptions(AdminUser)
\* returned the name adminUser.
C11_Witness ==
    /\ ModelDeclared("AdminUser")
    /\ snap.op = "getModelOptions" /\ snap.cls = "AdminUser"
    /\ "name" \in DOMAIN snap.opts
    /\ snap.opts["name"] = Prim("adminUser")
    /\ getModelOptions("AdminUser") = snap.opts

-----------------------------------------------------------------------------
(* C12 *)

\* C12: defineModelOptions(type, partialOptions) succeeds, and afterwards
\* getModelOptions(type) is the prior options overridden by partialOptions:
\* every key of partialOptions has the new value, every other prior key keeps
\* its value, and there are no other keys.
C12_OverridePrior ==
    [][\A c \in Classes :
         ModelCalls(c)' # ModelCalls(c) =>
            LET partial == ModelCalls(c)'[Len(ModelCalls(c)')]
                prior == getModelOptions(c)
            IN /\ ~ret'.raised
               /\ DOMAIN getModelOptions(c)' = DOMAIN prior \cup DOMAIN partial
               /\ \A f \in DOMAIN partial : getModelOptions(c)'[f] = partial[f]
               /\ \A f \in DOMAIN prior \ DOMAIN partial :
                    getModelOptions(c)'[f] = prior[f]]_vars

\* AdminUser was declared twice, one declaration giving tableName and one a
\* name: its options hold both.
C12_Witness ==
    /\ Len(ModelCalls("AdminUser")) = 2
    /\ DOMAIN getModelOptions("AdminUser") = {"name", "tableName"}
    /\ getModelOptions("AdminUser")["tableName"] = Prim("admins")
    /\ ~ret.raised

-----------------------------------------------------------------------------
(* C13 *)

\* The attribute (c, key) has a type.
TypeSet(c, key) ==
    /\ HasRecord("defineAttribute", c, key)
    /\ Get(StoredRecord("defineAttribute", c, key), "type") # Undefined

\* The step is a defineAttribute call whose options give a type other than
\* undefined.
ProvidesType ==
    \E c \in Classes, key \in Keys :
        LET before == Calls("defineAttribute", c, key)
            after == Calls("defineAttribute", c, key)'
        IN /\ after # before
           /\ Get(after[Len(after)], "type") # Undefined

\* C13: once an attribute has a type it keeps one in every later state, and a
\* step that is not a declaration giving a type (defaultValue, readOnly,
\* required, optional, primary, unique, a defineAttribute whose type is absent
\* or undefined, any other operation) leaves the type as it is.  The records
\* are read from the store, so only the steps that change it are looked at.
C13_TypeStays ==
    [][store' # store =>
         \A c \in Classes, key \in Keys :
            TypeSet(c, key) =>
               /\ TypeSet(c, key)'
               /\ ~ProvidesType =>
                    StoredRecord("defineAttribute", c, key)'["type"] =
                    StoredRecord("defineAttribute", c, key)["type"]]_vars

\* User.email was declared with attr(type) and then with defineAttribute giving
\* type: undefined, and its type is still the declared one.
C13_Witness ==
    /\ Calls("defineAttribute", "User", "email") =
         <<One("type", STRING_TYPE), One("type", Undefined)>>
    /\ StoredRecord("defineAttribute", "User", "email")["type"] = STRING_TYPE

-----------------------------------------------------------------------------
(* C14 *)

\* No two calls of L provide a common field.
DisjointFields(L) ==
    \A i, j \in 1..Len(L) : i # j => DOMAIN L[i] \cap DOMAIN L[j] = {}

\* rec holds exactly the fields the calls of L provide, each with its value;
\* this does not depend on the order of L.
UnionOf(L, rec) ==
    /\ DOMAIN rec = FieldsOf(L)
    /\ \A i \in 1..Len(L) : \A f \in DOMAIN L[i] : rec[f] = L[i][f]

\* C14: declarations for one attribute (type, key) that provide disjoint sets
\* of fields commute: whatever their order, the stored record is the union of
\* the partial records, so it holds every provided field with its value.
C14_DisjointCommute ==
    \A c \in Classes, key \in Keys :
        LET L == Calls("defineAttribute", c, key) IN
        Declared("defineAttribute", c, key) /\ Alone("defineAttribute", c, key)
          /\ DisjointFields(L) =>
            /\ HasRecord("defineAttribute", c, key)
            /\ UnionOf(L, StoredRecord("defineAttribute", c, key))

\* readOnly was applied to User.email before attr(type), the reverse of the
\* written order, and the record holds both fields.
C14_Witness ==
    /\ Calls("defineAttribute", "User", "email") =
         <<One("readOnly", Prim("true")), One("type", STRING_TYPE)>>
    /\ Alone("defineAttribute", "User", "email")
    /\ DOMAIN StoredRecord("defineAttribute", "User", "email") = {"readOnly", "type"}
    /\ StoredRecord("defineAttribute", "User", "email")["type"] = STRING_TYPE

-----------------------------------------------------------------------------
(* C15 *)

\* The value of field f after a declaration giving options over a record whose
\* field was prior: the given value unless it is absent or undefined.
GivenOrKept(options, f, prior) ==
    IF Get(options, f) # Undefined THEN Get(options, f) ELSE prior

\* C15: a declaration of an association gives it the target of the call when
\* the call has one and leaves the target it had (X, or none) when the call
\* omits it, and the link type is the one of the call; so "no target, then
\* target X" ends with X, and "target X, then no target" keeps X.
C15_TargetKept ==
    [][\A c \in Classes, key \in Keys :
         LET before == Calls("defineAssociation", c, key)
             after == Calls("defineAssociation", c, key)'
             options == after[Len(after)]
             had == HasRecord("defineAssociation", c, key)
             prior == StoredRecord("defineAssociation", c, key)
         IN after # before =>
              /\ ~ret'.raised
              /\ HasRecord("defineAssociation", c, key)'
              /\ Get(StoredRecord("defineAssociation", c, key)', "target") =
                   GivenOrKept(options, "target",
                               IF had THEN Get(prior, "target") ELSE Undefined)
              /\ Get(StoredRecord("defineAssociation", c, key)', "type") =
                   GivenOrKept(options, "type",
                               IF had THEN Get(prior, "type") ELSE Undefined)]_vars

\* User.posts was declared with assoc(HAS_MANY) and then with
\* assoc(HAS_MANY, Post): the record has target Post and type HAS_MANY.
C15_Witness ==
    LET L == Calls("defineAssociation", "User", "posts") IN
    /\ Len(L) = 2
    /\ "target" \in DOMAIN L[1] /\ L[1]["target"] = Undefined
    /\ "target" \in DOMAIN L[2] /\ L[2]["target"] = PostCtor
    /\ StoredRecord("defineAssociation", "User", "posts")["target"] = PostCtor
    /\ StoredRecord("defineAssociation", "User", "posts")["type"] = HAS_MANY

-----------------------------------------------------------------------------
(* C16 *)

\* Every key of the base map is a key of the derived map, and every field of a
\* base record that the derived type's own calls did not provide has the same
\* value in the derived record.
ShowsBase(op, c, b) ==
    \A key \in Keys :
        HasRecord(op, b, key) =>
            /\ HasRecord(op, c, key)
            /\ \A f \in DOMAIN StoredRecord(op, b, key) \ FieldsOf(Calls(op, c, key)) :
                 /\ f \in DOMAIN StoredRecord(op, c, key)
                 /\ StoredRecord(op, c, key)[f] = StoredRecord(op, b, key)[f]

\* C16: once a derived type has declarations of a kind, its reads show the base
\* type's keys and fields that it did not override together with its own.
C16_ComposesWithBase ==
    \A c \in Classes : \A b \in Bases(c) :
        /\ ModelCalls(c) # <<>> =>
             \A f \in DOMAIN getModelOptions(b) \ FieldsOf(ModelCalls(c)) :
                 /\ f \in DOMAIN getModelOptions(c)
                 /\ getModelOptions(c)[f] = getModelOptions(b)[f]
        /\ \A op \in PropertyOps :
             (\E key \in Keys : Declared(op, c, key)) => ShowsBase(op, c, b)

-----------------------------------------------------------------------------
(* C17 *)

DeclarationOps ==
    {"defineModelOptions", "defineAssociation", "defineAttribute",
     "defineAttributeValidation"}

\* The step is a declaration on class c.
DeclarationOn(c) ==
    \E op \in DeclarationOps, key \in Keys \cup {""} :
        Calls(op, c, key)' # Calls(op, c, key)

\* C17: a declaration on a derived type, a redeclaration of a key of the base
\* type included, leaves what getModelOptions, getAttributes, getAssociations
\* and getProperties return for the base type unchanged.
C17_BaseUnchanged ==
    [][\A c \in Classes : \A b \in Bases(c) :
         DeclarationOn(c) =>
            /\ getModelOptions(b)' = getModelOptions(b)
            /\ Deref(getAttributes(b))' = Deref(getAttributes(b))
            /\ Deref(getAssociations(b))' = Deref(getAssociations(b))
            /\ getProperties(b)' = getProperties(b)]_vars

-----------------------------------------------------------------------------
(* C18 *)

\* The classes that are neither c nor on c's inheritance line.
Unrelated(c) == Classes \ ({c} \cup Related(c))

\* The step leaves what getModelOptions(d), getAttributes(d) (with its
\* records), getAssociations(d) (with its records) give as it was; that is so
\* at once when the step leaves what the read is computed from as it was.
SameOptions(d) ==
    optionsMeta' = optionsMeta \/ getModelOptions(d)' = getModelOptions(d)

SameAttributes(d) ==
    \/ attrsMeta' = attrsMeta /\ heap' = heap
    \/ Deref(getAttributes(d))' = Deref(getAttributes(d))

SameAssociations(d) ==
    \/ assocsMeta' = assocsMeta /\ heap' = heap
    \/ Deref(getAssociations(d))' = Deref(getAssociations(d))

\* The records a fresh read gives for the keys of c other than key.
OtherRecords(op, c, key) ==
    LET refs == IF op = "defineAttribute" THEN getAttributes(c) ELSE getAssociations(c)
    IN [k \in DOMAIN refs \ {key} |-> heap[refs[k]]]

\* C18: a write touches only its own record.  A declaration of kind op on
\* (c, key) leaves unchanged: the records of kind op of every other key of c,
\* the records of the other kinds of c, and all records of the types unrelated
\* to c.  Options, attributes and associations are compared as the reads give
\* them; validation lists, which no read returns, as they are stored.
C18_OwnRecordOnly ==
    [][hist' # hist =>
       \A op \in DeclarationOps, c \in Classes, key \in Keys \cup {""} :
         Calls(op, c, key)' # Calls(op, c, key) =>
            /\ \A d \in Unrelated(c) :
                 SameOptions(d) /\ SameAttributes(d) /\ SameAssociations(d)
            /\ op # "defineModelOptions" => SameOptions(c)
            /\ op # "defineAttribute" => SameAttributes(c)
            /\ op # "defineAssociation" => SameAssociations(c)
            /\ \A r \in DOMAIN validationsMeta \cup DOMAIN validationsMeta' :
                 op # "defineAttributeValidation" \/ r # <<Prototype(c), key>> =>
                    /\ r \in DOMAIN validationsMeta \cap DOMAIN validationsMeta'
                    /\ validationsMeta'[r] = validationsMeta[r]
            /\ op \in PropertyOps =>
                 OtherRecords(op, c, key)' = OtherRecords(op, c, key)]_vars

\* User.email and User.posts were each declared once as attributes, and each
\* record holds what its own call gave: the later write left the earlier record.
C18_Witness ==
    /\ Calls("defineAttribute", "User", "email") = <<One("type", STRING_TYPE)>>
    /\ Calls("defineAttribute", "User", "posts") = <<One("type", STRING_TYPE)>>
    /\ StoredRecord("defineAttribute", "User", "email") = One("type", STRING_TYPE)
    /\ StoredRecord("defineAttribute", "User", "posts") = One("type", STRING_TYPE)

====
